---- MODULE Spec2Model ----
(***************************************************************************)
(* A model of render-3d's main.rs: the winit event-loop callback (frame    *)
(* pacing, keyboard-driven camera mutation, the redraw decision and the    *)
(* presentation) and queue_render, the rayon parallel pixel fill.          *)
(*                                                                         *)
(* Numbers.  The program computes in f32.  The model computes in fixed     *)
(* point with explicit rounding after every multiplication and division:   *)
(*   - quaternion components, trigonometric values and direction vectors   *)
(*     are integers in units of 1/One ("Fx");                              *)
(*   - durations and Instants are integers in milliseconds;                *)
(*   - camera.transform.position is in units of 1/(1000*One), so that the  *)
(*     product  velocity(Fx) * delta_time(ms)  is exact;                   *)
(*   - camera.focal_length is in units of 1/1000;                          *)
(*   - angles are in units of TURN_SPEED/1000 radians (angle) and of       *)
(*     TURN_SPEED/2000 radians = pi/4000 (hf_angle), so that               *)
(*     angle * delta_time  is exact.                                       *)
(***************************************************************************)
EXTENDS Integers, Sequences, FiniteSets, TLC

VARIABLES
    pc,            \* where the driving thread is: "start", "aborted", "fill",
                   \* "wait", "sleep", "input", "present", "closing", "exited",
                   \* "panicked"; "keyboard" in CameraSpec; "closure", "rotated"
                   \* in RotationSpec
    clock,         \* std::time::Instant::now(), in ms since process start
    last_frame,    \* main.rs:58  let mut last_frame
    this_frame,    \* main.rs:61  let mut this_frame
    delta_time,    \* main.rs:62  let mut delta_time (ms)
    event,         \* the Event handed to the callback
    held,          \* the keys WinitInputHelper reports held / pressed
    camera,        \* main.rs:28  let mut camera
    world,         \* main.rs:26  let world
    frame,         \* pixels.get_frame_mut(): the RGBA byte buffer
    control_flow,  \* *control_flow
    todo,          \* slots of the running fill not yet handed to a worker
    writes,        \* per byte: how often the current fill has written it
    tick           \* history: what the current / last tick did

vars == <<pc, clock, last_frame, this_frame, delta_time, event, held, camera,
          world, frame, control_flow, todo, writes, tick>>

----------------------------------------------------------------------------
(* Bounds of the model *)

\* width and height of the frame buffer the model fills (DIMS is 400 x 400)
DimW == 2
DimH == 2
\* applications of the keyboard block explored by CameraSpec
MaxSteps == 3
\* the clock reading after which no event arrives, no paced tick is due and
\* no fill takes time
MaxClock == 21

----------------------------------------------------------------------------
(* Fixed point arithmetic standing for f32 *)

\* the fixed point representation of 1.0
One == 2^10

Abs(a) == IF a < 0 THEN -a ELSE a

\* a / b rounded to the nearest integer, halves away from zero (b > 0)
RoundDiv(a, b) ==
    IF a >= 0 THEN (2 * a + b) \div (2 * b) ELSE -((2 * (-a) + b) \div (2 * b))

\* a * b of two Fx values
FMul(a, b) == RoundDiv(a * b, One)

\* a / b of two Fx values (b # 0)
FDiv(a, b) == IF b > 0 THEN RoundDiv(a * One, b) ELSE -RoundDiv(a * One, -b)

RECURSIVE SqrtSearch(_, _, _)
SqrtSearch(n, lo, hi) ==
    IF lo >= hi THEN lo
    ELSE LET mid == (lo + hi + 1) \div 2
         IN  IF mid * mid <= n THEN SqrtSearch(n, mid, hi)
             ELSE SqrtSearch(n, lo, mid - 1)

\* f32::sqrt of n / One^2, as Fx: the integer nearest to the square root of n
FSqrt(n) ==
    LET r == SqrtSearch(n, 0, 4 * One)
    IN  IF n - r * r > r THEN r + 1 ELSE r

\* pi as Fx
PiFx == RoundDiv(355 * One, 113)

RECURSIVE Factorial(_)
Factorial(k) == IF k <= 1 THEN 1 ELSE k * Factorial(k - 1)

\* the alternating power series of cos (k0 = 0) and sin (k0 = 1) from the term
\* of degree k on; pw is x^k as Fx, x2 is x^2 as Fx
RECURSIVE Series(_, _, _, _, _)
Series(pw, x2, k, last, sign) ==
    IF k > last THEN 0
    ELSE sign * RoundDiv(pw, Factorial(k))
         + Series(FMul(pw, x2), x2, k + 2, last, -sign)

\* the radians (Fx) of a half angle h given in units of pi/4000
Radians(h) == RoundDiv(Abs(h) * PiFx, 4000)

\* f32::cos and f32::sin of a half angle of h * pi/4000 radians, |h| <= 2000
Cos(h) == LET x == Radians(h) IN Series(One, FMul(x, x), 0, 8, 1)
Sin(h) ==
    LET x == Radians(h)
        s == Series(x, FMul(x, x), 1, 9, 1)
    IN  IF h < 0 THEN -s ELSE s

----------------------------------------------------------------------------
(* math::Vec3 and math::Quat *)

Vec3_i == <<One, 0, 0>>
Vec3_j == <<0, One, 0>>
Vec3_k == <<0, 0, One>>
Quat_one == <<One, 0, 0, 0>>

VAdd(u, v) == <<u[1] + v[1], u[2] + v[2], u[3] + v[3]>>
\* Vec3 * integer
VScale(v, n) == <<v[1] * n, v[2] * n, v[3] * n>>
\* Vec3 * f32
VMulF(v, s) == <<FMul(v[1], s), FMul(v[2], s), FMul(v[3], s)>>

\* Hamilton product, every component rounded once
QMul(p, q) ==
    << FMul(p[1], q[1]) - FMul(p[2], q[2]) - FMul(p[3], q[3]) - FMul(p[4], q[4]),
       FMul(p[1], q[2]) + FMul(p[2], q[1]) + FMul(p[3], q[4]) - FMul(p[4], q[3]),
       FMul(p[1], q[3]) - FMul(p[2], q[4]) + FMul(p[3], q[1]) + FMul(p[4], q[2]),
       FMul(p[1], q[4]) + FMul(p[2], q[3]) - FMul(p[3], q[2]) + FMul(p[4], q[1]) >>

QConj(q) == <<q[1], -q[2], -q[3], -q[4]>>

QNorm2(q) == q[1] * q[1] + q[2] * q[2] + q[3] * q[3] + q[4] * q[4]

\* Quat::mag
QMag(q) == FSqrt(QNorm2(q))

\* f32::recip
Recip(m) == FDiv(One, m)

\* Quat * f32
QMulF(q, s) == <<FMul(q[1], s), FMul(q[2], s), FMul(q[3], s), FMul(q[4], s)>>

\* f32 + Vec3: the quaternion with that real part and that vector part
ScalarPlusVec(c, v) == <<c, v[1], v[2], v[3]>>

\* Vec3::rotate: q * v * conj(q), v taken as a pure quaternion
Rotate(v, q) ==
    LET r == QMul(QMul(q, <<0, v[1], v[2], v[3]>>), QConj(q))
    IN  <<r[2], r[3], r[4]>>

----------------------------------------------------------------------------
(* The camera and the keyboard handling of the callback (main.rs:70-159) *)

\* main.rs:78, in world units per second
MOVE_SPEED == 3
\* main.rs:79, FRAC_PI_2 radians per second = 2 units of pi/4000 per ms
TURN_SPEED == 2

\* main.rs:28-35
InitCamera ==
    [ position     |-> VScale(Vec3_i, -800),
      rotation     |-> Quat_one,
      px_per_unit  |-> 60 * One,
      focal_length |-> 2000 ]

\* the keys the callback asks about, in the order it asks
MoveKeys == <<"W", "S", "A", "D", "E", "Q", "X", "Z", "R", "F">>
TurnKeys == <<"J", "L", "K", "I", "O", "U">>
Keys == {MoveKeys[n] : n \in 1..Len(MoveKeys)} \cup {TurnKeys[n] : n \in 1..Len(TurnKeys)}
           \cup {"LControl", "RControl", "C"}

\* the Vec3 a key passes to the movement closure (main.rs:87-112)
MoveDelta(key) ==
    CASE key = "W" -> VScale(Vec3_i, MOVE_SPEED)
      [] key = "S" -> VScale(Vec3_i, -MOVE_SPEED)
      [] key = "A" -> VScale(Vec3_j, MOVE_SPEED)
      [] key = "D" -> VScale(Vec3_j, -MOVE_SPEED)
      [] key = "E" -> VScale(Vec3_k, MOVE_SPEED)
      [] key = "Q" -> VScale(Vec3_k, -MOVE_SPEED)
      [] key = "X" -> VScale(Vec3_i, MOVE_SPEED)
      [] key = "Z" -> VScale(Vec3_i, -MOVE_SPEED)
      [] OTHER -> <<0, 0, 0>>

\* whether a key calls the movement closure
Translates(key) == key \in {"W", "S", "A", "D", "E", "Q", "X", "Z"}

\* a faulty variant: Z changes the focal length the way X does
FocalDeltaSameSign(key, dt) ==
    CASE key \in {"X", "Z", "F"} -> -(MOVE_SPEED * dt)
      [] key = "R" -> MOVE_SPEED * dt
      [] OTHER -> 0

\* what a key adds to camera.focal_length (main.rs:105-120)
FocalDelta(key, dt) ==
    CASE key = "X" -> -(MOVE_SPEED * dt)
      [] key = "Z" -> MOVE_SPEED * dt
      [] key = "R" -> MOVE_SPEED * dt
      [] key = "F" -> -(MOVE_SPEED * dt)
      [] OTHER -> 0

\* the angle and the axis a key passes to the rotation closure (main.rs:139-156)
TurnAngle(key) ==
    CASE key \in {"J", "K", "O"} -> TURN_SPEED
      [] OTHER -> -TURN_SPEED
TurnAxis(key) ==
    CASE key \in {"J", "L"} -> Vec3_k
      [] key \in {"K", "I"} -> Vec3_j
      [] OTHER -> Vec3_i

\* a faulty variant: the displacement is not scaled by delta_time
DisplacementUnscaled(cam, delta, dt) == Rotate(delta, cam.rotation)

\* delta.rotate(camera.transform.rotation) * delta_time (main.rs:83)
Displacement(cam, delta, dt) == VScale(Rotate(delta, cam.rotation), dt)

\* the movement closure (main.rs:82-86)
movement(cam, delta, dt) ==
    [cam EXCEPT !.position = VAdd(@, Displacement(cam, delta, dt))]

\* let angle = angle * delta_time (main.rs:125)
ScaledAngle(angle, dt) == angle * dt

\* let hf_angle = angle / 2.0 (main.rs:126)
HalfAngle(angle) == angle \div 2

\* hf_angle.cos() + axis * hf_angle.sin() (main.rs:127)
AxisAngle(hf, axis) == ScalarPlusVec(Cos(hf), VMulF(axis, Sin(hf)))

\* new_rot * new_rot.mag().recip() (main.rs:134)
Normalized(q) == QMulF(q, Recip(QMag(q)))

\* a faulty variant: the conjugated increment is composed on the right
RotatedOnTheRight(rot, new_rot) ==
    QMul(rot, Normalized(QMul(QMul(rot, new_rot), QConj(rot))))

\* the orientation the rotation closure stores (main.rs:129-135)
Rotated(rot, new_rot) == QMul(Normalized(QMul(QMul(rot, new_rot), QConj(rot))), rot)

\* the rotation closure (main.rs:124-137)
rotation(cam, angle, axis, dt) ==
    [cam EXCEPT !.rotation =
        Rotated(@, AxisAngle(HalfAngle(ScaledAngle(angle, dt)), axis))]

\* a faulty variant: the zoom keys change the pixel scale instead of the focal length
MoveKeyStepZoom(cam, key, dt) ==
    LET moved == IF Translates(key) THEN movement(cam, MoveDelta(key), dt) ELSE cam
    IN  [moved EXCEPT !.px_per_unit = @ + FocalDelta(key, dt)]

\* one `if input.key_held(..)` block of the movement keys (main.rs:87-120)
MoveKeyStep(cam, key, dt) ==
    LET moved == IF Translates(key) THEN movement(cam, MoveDelta(key), dt) ELSE cam
    IN  [moved EXCEPT !.focal_length = @ + FocalDelta(key, dt)]

\* one `if input.key_held(..)` block of the rotation keys (main.rs:139-156)
TurnKeyStep(cam, key, dt) == rotation(cam, TurnAngle(key), TurnAxis(key), dt)

\* a faulty variant: the key blocks are chained by else, so that only the first
\* held key of a list is handled
HeldOfFirst(keys, down) ==
    LET first == {n \in 1..Len(keys) : keys[n] \in down /\ \A m \in 1..(n - 1) : keys[m] \notin down}
    IN  IF first = {} THEN <<>> ELSE <<keys[CHOOSE n \in first : TRUE]>>

\* the keys of a list that are held, in the order of the list
RECURSIVE HeldOf(_, _)
HeldOf(keys, down) ==
    IF keys = <<>> THEN <<>>
    ELSE (IF Head(keys) \in down THEN <<Head(keys)>> ELSE <<>>) \o HeldOf(Tail(keys), down)

RECURSIVE ApplyMoves(_, _, _)
ApplyMoves(cam, keys, dt) ==
    IF keys = <<>> THEN cam
    ELSE ApplyMoves(MoveKeyStep(cam, Head(keys), dt), Tail(keys), dt)

RECURSIVE ApplyTurns(_, _, _)
ApplyTurns(cam, keys, dt) ==
    IF keys = <<>> THEN cam
    ELSE ApplyTurns(TurnKeyStep(cam, Head(keys), dt), Tail(keys), dt)

\* a faulty variant: the rotation keys are handled before the movement keys
KeyboardBlockTurnsFirst(cam, down, dt) ==
    LET moves == HeldOf(MoveKeys, down)
        turns == HeldOf(TurnKeys, down)
    IN  [ camera       |-> ApplyMoves(ApplyTurns(cam, turns, dt), moves, dt),
          applied      |-> turns \o moves,
          did_movement |-> moves # <<>>,
          did_rotation |-> turns # <<>> ]

\* the block guarded by input.update(&event) (main.rs:70-159): the camera after
\* it, the mutations applied in order, and the two flags
KeyboardBlock(cam, down, dt) ==
    LET moves == HeldOf(MoveKeys, down)
        turns == HeldOf(TurnKeys, down)
    IN  [ camera       |-> ApplyTurns(ApplyMoves(cam, moves, dt), turns, dt),
          applied      |-> moves \o turns,
          did_movement |-> moves # <<>>,
          did_rotation |-> turns # <<>> ]

\* a faulty variant: both Control keys have to be held
ExitComboBothControls(down) == "LControl" \in down /\ "RControl" \in down /\ "C" \in down

\* Ctrl held and C pressed (main.rs:71-73)
ExitCombo(down) == ("LControl" \in down \/ "RControl" \in down) /\ "C" \in down

----------------------------------------------------------------------------
(* world::World and Camera::get_px *)

\* the scene of scenes/sample.ron: axis-aligned planes, each with a colour,
\* and the background colour
SampleWorld ==
    [ background |-> <<0, 0, 0>>,
      primitives |-> << [axis |-> 1, offset |-> RoundDiv(-810 * One, 1000), color |-> <<0, 200, 0>>],
                        [axis |-> 2, offset |-> RoundDiv(-5 * One, 1000), color |-> <<0, 0, 200>>],
                        [axis |-> 3, offset |-> 3 * One, color |-> <<200, 0, 0>>] >> ]
NoWorld == [background |-> <<0, 0, 0>>, primitives |-> <<>>]

\* whether the ray from o along d meets the plane at a distance >= 0
Hits(prim, o, d) ==
    LET n == prim.offset - o[prim.axis]
        m == d[prim.axis]
    IN  m # 0 /\ (n = 0 \/ (n > 0) = (m > 0))

\* whether primitive p is met strictly nearer than primitive q (both are met)
Nearer(p, q, o, d) ==
    Abs(p.offset - o[p.axis]) * Abs(d[q.axis]) < Abs(q.offset - o[q.axis]) * Abs(d[p.axis])

\* the index of the nearest primitive met among the first n, 0 when none is
RECURSIVE NearestHit(_, _, _, _)
NearestHit(w, o, d, n) ==
    IF n = 0 THEN 0
    ELSE LET best == NearestHit(w, o, d, n - 1)
             prim == w.primitives[n]
         IN  IF ~Hits(prim, o, d) THEN best
             ELSE IF best = 0 THEN n
             ELSE IF Nearer(prim, w.primitives[best], o, d) THEN n
             ELSE best

\* Scene.intersect: the colour of the nearest primitive met, else the background
Intersect(w, o, d) ==
    LET n == NearestHit(w, o, d, Len(w.primitives))
    IN  IF n = 0 THEN w.background ELSE w.primitives[n].color

\* Camera::get_px: the colour the camera resolves for a centred screen coordinate
get_px(cam, w, x_w, y_w) ==
    LET local  == << FDiv(x_w, cam.px_per_unit), FDiv(y_w, cam.px_per_unit),
                     RoundDiv(cam.focal_length * One, 1000) >>
        dir    == Rotate(local, cam.rotation)
        origin == << RoundDiv(cam.position[1], 1000), RoundDiv(cam.position[2], 1000),
                     RoundDiv(cam.position[3], 1000) >>
    IN  Intersect(w, origin, dir)

----------------------------------------------------------------------------
(* queue_render (main.rs:178-202) *)

\* main.rs:23
DIMS == <<DimW, DimH>>

\* Pixels::new(DIMS.0, DIMS.1, ..): 4 bytes per pixel, zeroed
FrameLen == DIMS[1] * DIMS[2] * 4
BlankFrame == [b \in 0..(FrameLen - 1) |-> 0]

Min(a, b) == IF a < b THEN a ELSE b

\* the items of par_chunks_exact_mut(4).zip(index): the shorter of the two
Items(buf) == 0..(Min(Cardinality(DOMAIN buf) \div 4, DIMS[1] * DIMS[2]) - 1)

\* the bytes of chunk c of par_chunks_exact_mut(4)
ChunkBytes(c) == (4 * c)..(4 * c + 3)

\* a faulty variant: the index comes from a counter shared by the workers
ZipIndexShared(c, items) == DIMS[1] * DIMS[2] - Cardinality(items)

\* the index zip pairs with chunk c: the one at the same place of 0..DIMS.0*DIMS.1,
\* whatever items are still to be processed
ZipIndex(c, items) == c

\* a faulty variant: x is taken as the quotient, which makes the buffer column-major
PixelXDiv(i) == i \div DIMS[1]

\* main.rs:190-192
PixelX(i) == i % DIMS[1]
PixelY(i) == i \div DIMS[1]
Centred(x, dim) == x * One - (dim * One) \div 2

\* main.rs:194-195
Rgba(w, cam, i) ==
    LET rgb == get_px(cam, w, Centred(PixelX(i), DIMS[1]), Centred(PixelY(i), DIMS[2]))
    IN  <<rgb[1], rgb[2], rgb[3], 255>>

\* pixel.copy_from_slice(&rgba) on chunk c (main.rs:197)
CopyFromSlice(buf, c, rgba) ==
    [b \in DOMAIN buf |-> IF b \in ChunkBytes(c) THEN rgba[b - 4 * c + 1] ELSE buf[b]]

\* the closure of for_each on the item of chunk c (main.rs:188-198), items
\* being the ones not processed yet
FillItem(buf, w, cam, c, items) == CopyFromSlice(buf, c, Rgba(w, cam, ZipIndex(c, items)))

\* a fill by one worker that takes the first n items in index order
RECURSIVE SequentialFill(_, _, _, _)
SequentialFill(buf, w, cam, n) ==
    IF n = 0 THEN buf
    ELSE FillItem(SequentialFill(buf, w, cam, n - 1), w, cam, n - 1,
                  {c \in Items(buf) : c >= n - 1})

----------------------------------------------------------------------------
(* The event loop (main.rs:25-176) *)

\* main.rs:63, Duration::from_millis(10)
min_frame_time == 10

\* the events winit hands to the callback; LoopDestroyed is the last one, sent
\* once the callback has asked for ControlFlow::Exit
Events == {"WindowEvent", "MainEventsCleared", "RedrawRequested"}

\* the key states the input helper reports when a step of input ends, and the
\* one it reports while other events are handled
HeldChoices == { {}, {"W", "S"}, {"W", "J"}, {"LControl", "C", "F"} }
HeldBetween == {"W", "K"}

\* ms between the return of one callback and the next event
WaitTimes == {0, 10}
\* ms a fill takes
FillTimes == {0, 8}
\* ms std::thread::sleep returns after the time asked for
LateTimes == {0, 1}

\* WinitInputHelper::update: true when the event ends a step of input
InputUpdate(ev) == ev = "MainEventsCleared"

NoTick ==
    [ n |-> 0, start |-> 0, slept |-> FALSE, inputAt |-> -1,
      keyboard_input |-> FALSE, redraw_requested |-> FALSE, applied |-> <<>>,
      cam0 |-> InitCamera, frame0 |-> BlankFrame,
      presentAt |-> -1, rendered |-> "none", new_rot |-> Quat_one,
      startup |-> "none",
      prevStart |-> -1, prevPresentAt |-> -1 ]

NoWrites == [b \in DOMAIN BlankFrame |-> 0]

InitAt(place) ==
    /\ pc = place
    /\ clock = 0
    /\ last_frame = 0
    /\ this_frame = 0
    /\ delta_time = 0
    /\ event = "none"
    /\ held = {}
    /\ camera = InitCamera
    /\ world = NoWorld
    /\ frame = BlankFrame
    /\ control_flow = "Poll"
    /\ todo = {}
    /\ writes = NoWrites
    /\ tick = NoTick

Init == InitAt("start")

\* what main.rs:26-54 can end in: the scene does not parse, the window or the
\* pixel buffer cannot be made, or all three succeed
StartupOutcomes == {"ok", "scene", "window", "pixels"}

\* a faulty variant: a failure to make the pixel buffer is not noticed
StartupResultUnchecked(outcome) ==
    IF outcome \in {"ok", "pixels"} THEN "fill" ELSE "aborted"

\* where main is after main.rs:26-54: every failure panics in its expect
StartupResult(outcome) == IF outcome = "ok" THEN "fill" ELSE "aborted"

\* main.rs:26-56: the scene is parsed, the window and the pixel buffer are
\* made; any failure aborts (expect), success starts the first fill
Startup(outcome) ==
    /\ pc = "start"
    /\ pc' = StartupResult(outcome)
    /\ IF pc' = "fill"
       THEN /\ world' = SampleWorld
            /\ todo' = Items(frame)
       ELSE UNCHANGED <<world, todo>>
    /\ tick' = [tick EXCEPT !.startup = outcome]
    /\ UNCHANGED <<clock, last_frame, this_frame, delta_time, event, held, camera,
                   frame, control_flow, writes>>

\* a faulty variant: an item taken stays available to the other workers
TakenNot(items, i) == items

\* the items left once a worker has taken item i
Taken(items, i) == items \ {i}

\* some worker runs the closure of for_each on one item (main.rs:188-198)
WorkerStep ==
    /\ pc = "fill"
    /\ \E i \in todo :
        /\ frame' = FillItem(frame, world, camera, i, todo)
        /\ todo' = Taken(todo, i)
        /\ writes' = [b \in DOMAIN writes |->
                        IF b \in ChunkBytes(i) THEN writes[b] + 1 ELSE writes[b]]
    /\ UNCHANGED <<pc, clock, last_frame, this_frame, delta_time, event, held,
                   camera, world, control_flow, tick>>

\* a faulty variant: for_each returns while one item is still to be processed
FillDoneEarly(items) == Cardinality(items) <= 1

\* whether for_each may return: every item has been processed
FillDone(items) == items = {}

\* for_each returns, d ms after the fill began; queue_render returns to line 58
\* (the first fill) or to pixels.render() (main.rs:166).  The clock is first
\* read after the first fill, whose duration is therefore taken as 0.
Join(d) ==
    /\ pc = "fill"
    /\ FillDone(todo)
    /\ (tick.n > 0 /\ clock + d <= MaxClock) \/ d = 0
    /\ clock' = clock + d
    /\ IF tick.n = 0
       THEN /\ last_frame' = clock'
            /\ pc' = "wait"
       ELSE /\ pc' = "present"
            /\ UNCHANGED last_frame
    /\ UNCHANGED <<this_frame, delta_time, event, held, camera, world, frame,
                   control_flow, todo, writes, tick>>

\* a faulty variant: the callback sleeps for the time already elapsed
SleepForElapsed(delta) == delta

\* a faulty variant: the callback never sleeps
MustSleepNever(delta) == FALSE

\* whether the callback sleeps (main.rs:64), and for how long (main.rs:65)
MustSleep(delta) == delta < min_frame_time
SleepFor(delta) == min_frame_time - delta

\* an event arrives d ms after the previous callback returned; main.rs:61-64
TickStart(d, ev, down) ==
    /\ \/ pc = "wait" /\ ev \in Events
       \/ pc = "closing" /\ ev = "LoopDestroyed"
    /\ down = HeldBetween \/ ev = "MainEventsCleared"
    /\ \/ clock + d <= MaxClock /\ last_frame + min_frame_time <= MaxClock
       \/ pc = "closing" /\ d = 0
    /\ clock' = clock + d
    /\ this_frame' = clock'
    /\ delta_time' = clock' - last_frame
    /\ event' = ev
    /\ held' = down
    /\ pc' = IF MustSleep(clock' - last_frame) THEN "sleep" ELSE "input"
    /\ tick' = [NoTick EXCEPT !.n = tick.n + 1, !.start = clock',
                              !.cam0 = camera, !.frame0 = frame,
                              !.startup = tick.startup,
                              !.prevStart = IF tick.n = 0 THEN -1 ELSE tick.start,
                              !.prevPresentAt = IF tick.n = 0 THEN -1 ELSE tick.presentAt]
    /\ UNCHANGED <<last_frame, camera, world, frame, control_flow, todo, writes>>

\* std::thread::sleep returns, no earlier than asked; main.rs:65-67
SleepReturn(late) ==
    /\ pc = "sleep"
    /\ clock' = clock + SleepFor(delta_time) + late
    /\ delta_time' = min_frame_time
    /\ this_frame' = last_frame + min_frame_time
    /\ pc' = "input"
    /\ tick' = [tick EXCEPT !.slept = TRUE]
    /\ UNCHANGED <<last_frame, event, held, camera, world, frame, control_flow,
                   todo, writes>>

\* a faulty variant: a frame is drawn only when both conditions hold
RedrawDecisionBoth(keyboard_input, redraw_requested) == keyboard_input /\ redraw_requested

\* main.rs:164
RedrawDecision(keyboard_input, redraw_requested) == keyboard_input \/ redraw_requested

\* a faulty variant: the timestamp is not recorded
LastFrameKept(this, last) == last

\* main.rs:174: what the callback leaves in last_frame when it returns, this
\* being its this_frame and last the last_frame it ran with
LastFrameAtReturn(this, last) == this

\* where the loop is once a callback has returned
AfterTick(ev, cf) ==
    IF ev = "LoopDestroyed" THEN "exited"
    ELSE IF cf = "Exit" THEN "closing"
    ELSE "wait"

\* a faulty variant: the keyboard is handled while a fill is still running
InputReachedInFill == pc \in {"input", "fill"}

\* the callback is at main.rs:69, past the pacing and before any fill
InputReached == pc = "input"

\* main.rs:69-165 and, when nothing is drawn, main.rs:174
InputStep ==
    /\ InputReached
    /\ LET updated  == InputUpdate(event)
           kb       == KeyboardBlock(camera, held, delta_time)
           keyboard == updated /\ (kb.did_rotation \/ kb.did_movement)
           redraw   == event = "RedrawRequested"
           cf       == IF updated /\ ExitCombo(held) THEN "Exit" ELSE control_flow
       IN  /\ camera' = IF updated THEN kb.camera ELSE camera
           /\ control_flow' = cf
           /\ tick' = [tick EXCEPT !.inputAt = clock,
                                   !.applied = IF updated THEN kb.applied ELSE <<>>,
                                   !.keyboard_input = keyboard,
                                   !.redraw_requested = redraw]
           /\ IF RedrawDecision(keyboard, redraw)
              THEN /\ pc' = "fill"
                   /\ todo' = Items(frame)
                   /\ writes' = NoWrites
                   /\ UNCHANGED last_frame
              ELSE /\ pc' = AfterTick(event, cf)
                   /\ last_frame' = LastFrameAtReturn(this_frame, last_frame)
                   /\ UNCHANGED <<todo, writes>>
    /\ UNCHANGED <<clock, this_frame, delta_time, event, held, world, frame>>

\* what the callback does with the result of pixels.render() (main.rs:166-172):
\* map_err runs its closure on an Err, and the closure panics
OnRender(result) == IF result = "Err" THEN "panic" ELSE "continue"

\* pixels.render() returns; main.rs:166-174
Present(result) ==
    /\ pc = "present"
    /\ tick' = [tick EXCEPT !.presentAt = clock, !.rendered = result]
    /\ IF OnRender(result) = "panic"
       THEN /\ pc' = "panicked"
            /\ UNCHANGED <<last_frame, control_flow>>
       ELSE /\ control_flow' = IF result = "Err" THEN "Exit" ELSE control_flow
            /\ last_frame' = LastFrameAtReturn(this_frame, last_frame)
            /\ pc' = AfterTick(event, control_flow')
    /\ UNCHANGED <<clock, this_frame, delta_time, event, held, camera, world, frame,
                   todo, writes>>

Next ==
    \/ \E outcome \in StartupOutcomes : Startup(outcome)
    \/ WorkerStep
    \/ \E d \in FillTimes : Join(d)
    \/ \E d \in WaitTimes, ev \in Events \cup {"LoopDestroyed"},
          down \in HeldChoices \cup {HeldBetween} : TickStart(d, ev, down)
    \/ \E late \in LateTimes : SleepReturn(late)
    \/ InputStep
    \/ \E result \in {"Ok", "Err"} : Present(result)

Spec == Init /\ [][Next]_vars

----------------------------------------------------------------------------
(* The keyboard block on its own: main.rs:70-159 applied again and again,    *)
(* with the held keys and the elapsed times of CamHeld and CamTimes          *)

CamHeld == { {"W"}, {"J"}, {"U"}, {"X"}, {"F"}, {"A", "K"} }
CamTimes == {10, 20, 250}

CamInit == InitAt("keyboard")

KeyboardStep(down, dt) ==
    /\ pc = "keyboard"
    /\ tick.n < MaxSteps
    /\ LET kb == KeyboardBlock(camera, down, dt)
       IN  /\ camera' = kb.camera
           /\ tick' = [tick EXCEPT !.n = @ + 1, !.cam0 = camera,
                                   !.applied = kb.applied,
                                   !.keyboard_input = kb.did_rotation \/ kb.did_movement]
    /\ held' = down
    /\ delta_time' = dt
    /\ UNCHANGED <<pc, clock, last_frame, this_frame, event, world, frame,
                   control_flow, todo, writes>>

CamNext == \E down \in CamHeld, dt \in CamTimes : KeyboardStep(down, dt)

CameraSpec == CamInit /\ [][CamNext]_vars

----------------------------------------------------------------------------
(* The rotation closure on its own: main.rs:129-135 applied once to an       *)
(* orientation and an increment drawn from Orientations and Increments       *)

\* the quaternions of magnitude exactly 1 that Fx (as f32) represents: the
\* units +-1, +-i, +-j, +-k and (+-1 +-i +-j +-k) / 2
ExactUnits ==
    LET h == One \div 2
    IN  {q \in [1..4 -> {-One, 0, One}] : Cardinality({n \in 1..4 : q[n] # 0}) = 1}
          \cup [1..4 -> {-h, h}]

\* the increments the rotation keys make with the elapsed times of CamTimes
KeyIncrements ==
    {AxisAngle(HalfAngle(ScaledAngle(TurnAngle(TurnKeys[n]), t)), TurnAxis(TurnKeys[n])) :
        n \in 1..Len(TurnKeys), t \in CamTimes}

Increments == ExactUnits \cup KeyIncrements
Orientations == ExactUnits \cup {Rotated(Quat_one, d) : d \in KeyIncrements}

RotInit ==
    /\ pc = "closure"
    /\ clock = 0
    /\ last_frame = 0
    /\ this_frame = 0
    /\ delta_time = 0
    /\ event = "none"
    /\ held = {}
    /\ \E q \in Orientations : camera = [InitCamera EXCEPT !.rotation = q]
    /\ world = NoWorld
    /\ frame = BlankFrame
    /\ control_flow = "Poll"
    /\ todo = {}
    /\ writes = NoWrites
    /\ tick = NoTick

\* main.rs:129-136, new_rot being the increment of main.rs:127
RotationClosure(new_rot) ==
    /\ pc = "closure"
    /\ camera' = [camera EXCEPT !.rotation = Rotated(@, new_rot)]
    /\ tick' = [tick EXCEPT !.n = 1, !.cam0 = camera, !.new_rot = new_rot]
    /\ pc' = "rotated"
    /\ UNCHANGED <<clock, last_frame, this_frame, delta_time, event, held, world,
                   frame, control_flow, todo, writes>>

RotNext == \E new_rot \in Increments : RotationClosure(new_rot)

RotationSpec == RotInit /\ [][RotNext]_vars

----------------------------------------------------------------------------
(* The claims *)

\* the callback is running, past its input step
Decided == tick.n > 0 /\ tick.inputAt >= 0
\* the callback has returned (or panicked)
TickOver == tick.n > 0 /\ pc \in {"wait", "closing", "exited", "panicked"}
\* a fill has ended and nothing has happened to the buffer since
FillEnded == pc = "present" \/ (pc = "wait" /\ tick.n = 0)
\* the current tick has started a fill
Drawn == tick.n > 0 /\ (pc \in {"fill", "present"} \/ tick.presentAt >= 0)
AllWritten == \A b \in DOMAIN frame : writes[b] = 1

RECURSIVE MovesChange(_, _, _)
MovesChange(cam, keys, dt) ==
    /\ keys # <<>>
    /\ \/ MoveKeyStep(cam, Head(keys), dt) # cam
       \/ MovesChange(MoveKeyStep(cam, Head(keys), dt), Tail(keys), dt)
RECURSIVE TurnsChange(_, _, _)
TurnsChange(cam, keys, dt) ==
    /\ keys # <<>>
    /\ \/ TurnKeyStep(cam, Head(keys), dt) # cam
       \/ TurnsChange(TurnKeyStep(cam, Head(keys), dt), Tail(keys), dt)
\* some mutation applied by the input step of the current tick changed the camera
PoseChangeOccurred ==
    /\ InputUpdate(event)
    /\ \/ MovesChange(tick.cam0, HeldOf(MoveKeys, held), delta_time)
       \/ TurnsChange(ApplyMoves(tick.cam0, HeldOf(MoveKeys, held), delta_time),
                      HeldOf(TurnKeys, held), delta_time)

\* C1: when two consecutive callbacks start less than min_frame_time apart on
\* the clock and both present, the second presentation comes at least
\* min_frame_time after the first.
C1_SecondPresentationDelayed ==
    (/\ tick.presentAt >= 0
     /\ tick.prevPresentAt >= 0
     /\ tick.start - tick.prevStart < min_frame_time)
    => tick.presentAt - tick.prevPresentAt >= min_frame_time

\* C2: a callback that starts less than min_frame_time after last_frame blocks,
\* one that starts later does not, and the input step (keys applied, redraw
\* decided) runs only once the clock is at least min_frame_time past last_frame.
C2_PacingWait ==
    /\ pc = "sleep" => tick.start - last_frame < min_frame_time
    /\ pc = "input" =>
         /\ clock - last_frame >= min_frame_time
         /\ tick.slept <=> (tick.start - last_frame < min_frame_time)
C2_Witness ==
    pc = "input" /\ tick.slept /\ tick.start - last_frame > 0

\* C3: once a tick has run its input step, it fills and presents exactly when a
\* mutation changed the camera in that tick or its event is RedrawRequested;
\* otherwise the frame buffer is the one the tick started with and nothing is
\* presented; a tick that fills has presented a completely written buffer by
\* the time it is over.
C3_RedrawDecision ==
    Decided =>
        /\ Drawn <=> (PoseChangeOccurred \/ event = "RedrawRequested")
        /\ ~Drawn => (frame = tick.frame0 /\ tick.presentAt = -1)
        /\ (Drawn /\ TickOver) => (tick.presentAt >= 0 /\ AllWritten)
C3_Witness ==
    /\ TickOver /\ Drawn
    /\ event = "MainEventsCleared"
    /\ held = {"W", "S"}
    /\ camera = tick.cam0

\* C4: when pixels.render() fails, the callback sets control_flow to Exit and
\* does not panic.
C4_RenderErrorRequestsExit ==
    tick.rendered = "Err" => (pc # "panicked" /\ control_flow = "Exit")

\* C5: when a fill has ended, the frame buffer equals the one a single worker
\* produces by processing the items in index order, whatever the order in which
\* the workers processed them.
C5_ParallelEqualsSequential ==
    FillEnded =>
        frame = SequentialFill(tick.frame0, world, camera, Cardinality(Items(frame)))
C5_Witness ==
    /\ pc = "present"
    /\ camera # InitCamera
    /\ frame = SequentialFill(tick.frame0, world, camera, Cardinality(Items(frame)))
    /\ \E a, b \in Items(frame) : frame[4 * a] # frame[4 * b]

\* C6: during a fill every byte of a processed chunk has been written exactly
\* once and no byte of an unprocessed chunk has been written; when the fill
\* has ended every byte of the buffer has been written exactly once.
C6_WrittenExactlyOnce ==
    /\ pc = "fill" =>
         \A c \in Items(frame) : \A b \in ChunkBytes(c) :
             writes[b] = IF c \in todo THEN 0 ELSE 1
    /\ FillEnded => AllWritten
    /\ DOMAIN frame = UNION {ChunkBytes(c) : c \in Items(frame)}
C6_Witness ==
    pc = "present" /\ AllWritten /\ tick.n > 1

\* C7: pixels.render() is reached only with every item processed and every byte
\* written; outside a fill no item is left to a worker; and a fill is left only
\* by its join, with every item processed, towards pixels.render() (or line 58
\* for the first fill), also once Exit has been requested.
C7_FillJoinedBeforePresent ==
    /\ [](pc = "present" => (todo = {} /\ AllWritten))
    /\ [](pc # "fill" => todo = {})
    /\ [][(pc = "fill" /\ pc' # "fill") =>
            (todo = {} /\ AllWritten /\ pc' = IF tick.n = 0 THEN "wait" ELSE "present")]_vars
C7_Witness ==
    pc = "present" /\ control_flow = "Exit" /\ todo = {} /\ AllWritten

\* C8: no step taken while a fill is in progress changes the camera or the world.
C8_FillLeavesCameraAndWorld ==
    [][pc = "fill" => (camera' = camera /\ world' = world)]_vars
C8_Witness ==
    /\ pc = "fill"
    /\ todo # {} /\ todo # Items(frame)
    /\ camera.position # InitCamera.position
    /\ camera.rotation # InitCamera.rotation

VSub(u, v) == <<u[1] - v[1], u[2] - v[2], u[3] - v[3]>>

C10_OrientationStaysUnit ==
    Abs(QMag(camera.rotation) - One) <= 1

RECURSIVE FocalSum(_, _)
FocalSum(keys, dt) ==
    IF keys = <<>> THEN 0 ELSE FocalDelta(Head(keys), dt) + FocalSum(Tail(keys), dt)

\* C11: px_per_unit is positive and is the value the camera was made with,
\* whatever keys were held; focal_length moves by the sum of what the held keys
\* add, with no lower limit, so that it can pass zero.
C11_PixelScaleConstant ==
    /\ camera.px_per_unit > 0
    /\ camera.px_per_unit = InitCamera.px_per_unit
    /\ tick.n > 0 =>
         camera.focal_length
            = tick.cam0.focal_length + FocalSum(HeldOf(MoveKeys, held), delta_time)
C11_Witness ==
    /\ held = {"F"}
    /\ tick.cam0.focal_length > 0
    /\ camera.focal_length < 0
    /\ camera.px_per_unit = 60 * One

\* the colour the camera resolves for column x and row y of a w by h screen
ResolvedAt(x, y, w, h) ==
    get_px(camera, world, x * One - (w * One) \div 2, y * One - (h * One) \div 2)

\* C12: when a fill has ended, for every row y and column x the three bytes from
\* 4 * (y * width + x) hold the colour the camera resolves for the centred
\* coordinate (x - width/2, y - height/2), and the fourth byte is 255.
C12_PixelContent ==
    FillEnded =>
        \A y \in 0..(DimH - 1) : \A x \in 0..(DimW - 1) :
            LET i   == y * DimW + x
                rgb == ResolvedAt(x, y, DimW, DimH)
            IN  /\ frame[4 * i] = rgb[1]
                /\ frame[4 * i + 1] = rgb[2]
                /\ frame[4 * i + 2] = rgb[3]
                /\ frame[4 * i + 3] = 255
C12_Witness ==
    /\ pc = "present"
    /\ camera.rotation # Quat_one
    /\ ResolvedAt(1, 0, DimW, DimH) # ResolvedAt(0, 1, DimW, DimH)
    /\ <<frame[4 * DimW], frame[4 * DimW + 1], frame[4 * DimW + 2]>> = ResolvedAt(0, 1, DimW, DimH)
    /\ frame[4 * DimW + 3] = 255

MutationKeys == {"W", "S", "A", "D", "E", "Q", "X", "Z", "R", "F", "J", "L", "K", "I", "O", "U"}
\* how often key k occurs in the sequence ks
Times(k, ks) == Cardinality({n \in 1..Len(ks) : ks[n] = k})
\* the camera after the mutations of the keys ks, each applied once with dt
RECURSIVE ApplyKeys(_, _, _)
ApplyKeys(cam, ks, dt) ==
    IF ks = <<>> THEN cam
    ELSE ApplyKeys(IF Head(ks) \in {"J", "L", "K", "I", "O", "U"}
                   THEN TurnKeyStep(cam, Head(ks), dt)
                   ELSE MoveKeyStep(cam, Head(ks), dt),
                   Tail(ks), dt)

\* C13: once the input step of a tick has run: when input.update returned true,
\* every held mutation key was applied exactly once and no other key was, the
\* camera is the one these mutations give with the tick's delta_time, and
\* keyboard_input is true exactly when a mutation was applied; when it returned
\* false, nothing was applied, the camera is unchanged and keyboard_input is false.
C13_InputDraining ==
    Decided =>
        IF event = "MainEventsCleared"
        THEN /\ \A k \in MutationKeys : Times(k, tick.applied) = IF k \in held THEN 1 ELSE 0
             /\ \A n \in 1..Len(tick.applied) : tick.applied[n] \in MutationKeys
             /\ camera = ApplyKeys(tick.cam0, tick.applied, delta_time)
             /\ tick.keyboard_input <=> (tick.applied # <<>>)
        ELSE /\ tick.applied = <<>>
             /\ camera = tick.cam0
             /\ ~tick.keyboard_input
C13_Witness ==
    /\ Decided
    /\ event = "MainEventsCleared"
    /\ tick.applied = <<"W", "J">>
    /\ tick.slept
    /\ tick.keyboard_input
    /\ camera.position # tick.cam0.position
    /\ camera.rotation # tick.cam0.rotation

\* the translation of length MOVE_SPEED * t along the camera's own forward axis
\* (sign 1) or against it (sign -1)
AlongForward(cam, sign, t) ==
    VScale(Rotate(VScale(Vec3_i, sign * MOVE_SPEED), cam.rotation), t)

\* C14: from the current pose, X moves the position forward along the camera's
\* own axis and Z backward, each changing focal_length by MOVE_SPEED * t with
\* opposite signs; R and F change focal_length by +MOVE_SPEED * t and
\* -MOVE_SPEED * t and nothing else; none of the four changes the orientation
\* or px_per_unit.  The same holds of the step just taken with X or F held.
C14_CombinedAndFocalMoves ==
    /\ \A t \in CamTimes :
         LET x == MoveKeyStep(camera, "X", t)
             z == MoveKeyStep(camera, "Z", t)
             r == MoveKeyStep(camera, "R", t)
             f == MoveKeyStep(camera, "F", t)
         IN  /\ x.position = VAdd(camera.position, AlongForward(camera, 1, t))
             /\ z.position = VAdd(camera.position, AlongForward(camera, -1, t))
             /\ x.position # camera.position /\ z.position # camera.position
             /\ x.focal_length - camera.focal_length = -(MOVE_SPEED * t)
             /\ z.focal_length - camera.focal_length = MOVE_SPEED * t
             /\ r.focal_length - camera.focal_length = MOVE_SPEED * t
             /\ f.focal_length - camera.focal_length = -(MOVE_SPEED * t)
             /\ r.position = camera.position /\ f.position = camera.position
             /\ \A c \in {x, z, r, f} :
                    c.rotation = camera.rotation /\ c.px_per_unit = camera.px_per_unit
    /\ (tick.n > 0 /\ held = {"X"}) =>
         /\ camera.position = VAdd(tick.cam0.position, AlongForward(tick.cam0, 1, delta_time))
         /\ camera.focal_length = tick.cam0.focal_length - MOVE_SPEED * delta_time
         /\ camera.rotation = tick.cam0.rotation
    /\ (tick.n > 0 /\ held = {"F"}) =>
         /\ camera = [tick.cam0 EXCEPT !.focal_length = @ - MOVE_SPEED * delta_time]
C14_Witness ==
    /\ tick.n > 1
    /\ held = {"X"}
    /\ tick.cam0.rotation # Quat_one
    /\ camera.position[2] # tick.cam0.position[2]
    /\ camera.focal_length = tick.cam0.focal_length - MOVE_SPEED * delta_time

\* the largest difference between two quaternions in one component
QDist(p, q) ==
    LET d == {Abs(p[n] - q[n]) : n \in 1..4}
    IN  CHOOSE m \in d : \A e \in d : e <= m
\* magnitude exactly 1
IsUnit(q) == QNorm2(q) = One * One

\* C15: the orientation the rotation closure stores is q * delta: exactly when
\* q and delta have magnitude exactly 1, and to within one rounding of a
\* component when they have magnitude 1 only to within rounding.
C15_LocalAxisRotation ==
    pc = "rotated" =>
        LET q     == tick.cam0.rotation
            delta == tick.new_rot
        IN  /\ (IsUnit(q) /\ IsUnit(delta)) => camera.rotation = QMul(q, delta)
            /\ QDist(camera.rotation, QMul(q, delta)) <= 1
C15_Witness ==
    /\ pc = "rotated"
    /\ IsUnit(tick.cam0.rotation) /\ IsUnit(tick.new_rot)
    /\ tick.cam0.rotation # Quat_one
    /\ QMul(tick.cam0.rotation, tick.new_rot) # QMul(tick.new_rot, tick.cam0.rotation)
    /\ camera.rotation = QMul(tick.cam0.rotation, tick.new_rot)

\* C16: when the scene did not parse or the window or the pixel buffer could
\* not be made, main has aborted: no item of a fill has been handed out or
\* written, the buffer is as it was made, no callback has run and nothing has
\* been presented.
C16_StartupFailureAborts ==
    tick.startup \in {"scene", "window", "pixels"} =>
        /\ pc = "aborted"
        /\ todo = {} /\ writes = NoWrites /\ frame = BlankFrame
        /\ tick.n = 0 /\ tick.inputAt = -1 /\ tick.presentAt = -1
        /\ event = "none" /\ clock = 0
C16_Witness ==
    /\ pc = "aborted"
    /\ tick.startup = "pixels"
    /\ frame = BlankFrame
    /\ tick.n = 0

\* C17: once the input step of a tick has run on a completed step of input with
\* a Control key held and C pressed, control_flow is Exit; and no step of the
\* callback, in that tick or a later one, takes control_flow from Exit to
\* another value.
C17_ShutdownRequestSticks ==
    /\ []((/\ Decided
           /\ event = "MainEventsCleared"
           /\ ("LControl" \in held \/ "RControl" \in held)
           /\ "C" \in held) => control_flow = "Exit")
    /\ [][control_flow = "Exit" => control_flow' = "Exit"]_vars
C17_Witness ==
    /\ pc = "exited"
    /\ event = "LoopDestroyed"
    /\ tick.n > 1
    /\ control_flow = "Exit"

\* the callback has returned
TickReturned == tick.n > 0 /\ pc \in {"wait", "closing", "exited"}

C19_ElapsedTimeFloor ==
    /\ pc = "input" =>
         /\ delta_time >= min_frame_time
         /\ tick.slept => delta_time = min_frame_time
         /\ ~tick.slept => delta_time = tick.start - last_frame
    /\ Decided =>
         /\ delta_time >= min_frame_time
         /\ camera = ApplyKeys(tick.cam0, tick.applied, delta_time)
C19_Witness ==
    /\ pc = "input"
    /\ tick.slept
    /\ clock - last_frame > min_frame_time
    /\ delta_time = min_frame_time
    /\ event = "MainEventsCleared"
    /\ "W" \in held

RotationKeys == {"J", "L", "K", "I", "O", "U"}
IsRotationKey(k) == k \in RotationKeys
IsMovementKey(k) == k \in MutationKeys \ RotationKeys

\* the sum of the translations of the keys ks, each turned by the orientation rot
RECURSIVE TranslationSum(_, _, _)
TranslationSum(ks, rot, dt) ==
    IF ks = <<>> THEN <<0, 0, 0>>
    ELSE VAdd(IF IsRotationKey(Head(ks)) THEN <<0, 0, 0>>
              ELSE VScale(Rotate(MoveDelta(Head(ks)), rot), dt),
              TranslationSum(Tail(ks), rot, dt))

\* C20: in a tick that handles the keyboard, no rotation is applied before a
\* translation; the position moves by the translations of the held keys, each
\* turned by the orientation the tick started with; the orientation is the one
\* the rotation keys alone give and the focal length the one the movement keys
\* alone give; and from the pose the tick leaves, no movement key changes the
\* orientation and no rotation key changes the position, the focal length or
\* px_per_unit.
C20_TranslationsBeforeRotations ==
    (Decided /\ event = "MainEventsCleared") =>
        /\ \A m, n \in 1..Len(tick.applied) :
              (IsRotationKey(tick.applied[m]) /\ ~IsRotationKey(tick.applied[n])) => n < m
        /\ camera.position
              = VAdd(tick.cam0.position,
                     TranslationSum(tick.applied, tick.cam0.rotation, delta_time))
        /\ camera.rotation
              = ApplyKeys(tick.cam0, SelectSeq(tick.applied, IsRotationKey), delta_time).rotation
        /\ camera.focal_length
              = ApplyKeys(tick.cam0, SelectSeq(tick.applied, IsMovementKey), delta_time).focal_length
        /\ pc # "fill" =>
              /\ \A k \in MutationKeys \ RotationKeys :
                    MoveKeyStep(camera, k, delta_time).rotation = camera.rotation
              /\ \A k \in RotationKeys :
                    LET c == TurnKeyStep(camera, k, delta_time)
                    IN  /\ c.position = camera.position
                        /\ c.focal_length = camera.focal_length
                        /\ c.px_per_unit = camera.px_per_unit
                        /\ c.rotation # camera.rotation
C20_Witness ==
    /\ Decided
    /\ event = "MainEventsCleared"
    /\ tick.applied = <<"W", "J">>
    /\ tick.cam0.rotation # Quat_one
    /\ camera.rotation # tick.cam0.rotation
    /\ camera.position
          = VAdd(tick.cam0.position, VScale(Rotate(MoveDelta("W"), tick.cam0.rotation), delta_time))
    /\ camera.position
          # VAdd(tick.cam0.position, VScale(Rotate(MoveDelta("W"), camera.rotation), delta_time))

====
